---- MODULE Spec2Model ----
(***************************************************************************)
(* Model of the velocity-model core of PerforationLocationProject:        *)
(* core/containers.py (Interval, Layer, VelocityModel).                    *)
(*                                                                         *)
(* Altitudes and velocities are integers; every quotient the code forms   *)
(* is kept as an exact fraction (num/den in lowest terms, den > 0), so     *)
(* the arithmetic of the model is exact arithmetic, not IEEE doubles.      *)
(***************************************************************************)
EXTENDS Integers, Sequences, FiniteSets

(***************************************************************************)
(* Bounds of the input space.                                              *)
(***************************************************************************)
\* most layers of a well-formed stack
MaxLayers == 3
\* longest arbitrary (possibly ill-formed) layer list
MaxAnyLayers == 2
\* layer boundaries of arbitrary (possibly ill-formed) lists: levels 0..MaxAnyLevel
MaxAnyLevel == 1
\* velocities of arbitrary lists: 1..MaxAnyVp
MaxAnyVp == 2
\* layer boundaries of well-formed stacks: levels 0..MaxLevel
MaxLevel == 3
\* velocities of well-formed stacks: 1..MaxVp
MaxVp == 2
\* most stations of an observation system
MaxStations == 2
\* arguments of a bare Interval construction: 0..MaxIntervalVal
MaxIntervalVal == 10
\* stations of an observation system whose corrections are compared
MaxManyStations == 3

\* altitude of level 0 and distance between two levels (the values of the
\* repository's test model: -90, -80, -70, -60)
Origin == -90
Step == (-80) - Origin
Half == Step \div 2

LevelAlt(i) == Origin + Step * i

\* query altitudes: every level, every mid-point between two levels, and one
\* point below the lowest and one above the highest level
QueryAlts == { Origin - Half + Half * j : j \in 0..(2 * MaxLevel + 2) }

(***************************************************************************)
(* Interval and Layer                                                      *)
(***************************************************************************)
\* Interval.__init__ refusing min_val == max_val as well
IntervalValidStrict(min_val, max_val) == min_val < max_val

\* Interval.__init__ accepts exactly the pairs with min_val <= max_val
IntervalValid(min_val, max_val) == ~(min_val > max_val)

Interval(min_val, max_val) == [min_val |-> min_val, max_val |-> max_val]

\* Interval.length
length(iv) == iv.max_val - iv.min_val

Layer(min_val, max_val, vp) == [min_val |-> min_val, max_val |-> max_val, vp |-> vp]

\* Layer.thickness
thickness(layer) == layer.max_val - layer.min_val

LayersOver(maxLevel, maxVp) ==
    { Layer(LevelAlt(i), LevelAlt(j), v) :
        <<i, j, v>> \in { t \in (0..maxLevel) \X (0..maxLevel) \X (1..maxVp) :
                            IntervalValid(t[1], t[2]) } }

SeqsUpTo(S, n) == UNION { [1..k -> S] : k \in 0..n }

\* any list of valid layers, in any order, overlapping or gapped or not
AnyLayerLists == SeqsUpTo(LayersOver(MaxAnyLevel, MaxAnyVp), MaxAnyLayers)

(***************************************************************************)
(* Exact fractions                                                         *)
(***************************************************************************)
Abs(x) == IF x < 0 THEN -x ELSE x

RECURSIVE GCD(_, _)
GCD(a, b) == IF b = 0 THEN a ELSE GCD(b, a % b)

\* n/d in lowest terms with a positive denominator (d # 0)
Rat(n, d) ==
    LET g == GCD(Abs(n), Abs(d))
        s == IF d < 0 THEN -1 ELSE 1
    IN  [num |-> s * (n \div g), den |-> s * (d \div g)]

RatAdd(p, q) == Rat(p.num * q.den + q.num * p.den, p.den * q.den)

(***************************************************************************)
(* Results of a call: a value, None, or a raised exception                 *)
(***************************************************************************)
Value(r) == [kind |-> "value", num |-> r.num, den |-> r.den]
NoneResult == [kind |-> "None", num |-> 0, den |-> 1]
Raise(exc) == [kind |-> exc, num |-> 0, den |-> 1]

(***************************************************************************)
(* VelocityModel                                                           *)
(***************************************************************************)
\* InsertDesc without reverse=True: ascending max_val
InsertAsc(sorted, x) ==
    LET n == Cardinality({ i \in 1..Len(sorted) : sorted[i].max_val <= x.max_val })
    IN  SubSeq(sorted, 1, n) \o <<x>> \o SubSeq(sorted, n + 1, Len(sorted))

\* one step of the stable descending sort: x goes behind every layer whose
\* max_val is >= its own, in front of every layer whose max_val is smaller
InsertDesc(sorted, x) ==
    LET n == Cardinality({ i \in 1..Len(sorted) : sorted[i].max_val >= x.max_val })
    IN  SubSeq(sorted, 1, n) \o <<x>> \o SubSeq(sorted, n + 1, Len(sorted))

RECURSIVE SortFrom(_, _, _)
SortFrom(input, k, sorted) ==
    IF k > Len(input) THEN sorted
    ELSE SortFrom(input, k + 1, InsertDesc(sorted, input[k]))

\* layers.sort(key=lambda x: x.altitude_interval.max_val, reverse=True)
SortLayers(input) == SortFrom(input, 1, <<>>)

\* min_altitude read from the first layer instead of the last
min_altitude_first(ls) == ls[1].min_val

\* VelocityModel.min_altitude: self.layers[-1].altitude_interval.min_val
min_altitude(ls) == ls[Len(ls)].min_val

\* VelocityModel.max_altitude: self.layers[0].altitude_interval.max_val
max_altitude(ls) == ls[1].max_val

\* FindLayer with the boundary given to the shallower layer
\* (bottom <= altitude < top)
RECURSIVE FindLayerLowerInclusive(_, _, _)
FindLayerLowerInclusive(ls, altitude, i) ==
    IF i > Len(ls) THEN NoneResult
    ELSE IF ls[i].min_val <= altitude /\ altitude < ls[i].max_val
         THEN Value(Rat(ls[i].vp, 1))
         ELSE FindLayerLowerInclusive(ls, altitude, i + 1)

\* the for-loop of get_velocity_by_altitude: the first layer, top down, with
\* bottom < altitude <= top; falling off the loop returns None
RECURSIVE FindLayer(_, _, _)
FindLayer(ls, altitude, i) ==
    IF i > Len(ls) THEN NoneResult
    ELSE IF ls[i].min_val < altitude /\ altitude <= ls[i].max_val
         THEN Value(Rat(ls[i].vp, 1))
         ELSE FindLayer(ls, altitude, i + 1)

\* get_velocity_by_altitude without the check against max_altitude
get_velocity_by_altitude_no_upper(ls, altitude) ==
    IF altitude < min_altitude(ls) THEN Raise("ValueError")
    ELSE IF altitude = min_altitude(ls) THEN Value(Rat(ls[Len(ls)].vp, 1))
    ELSE FindLayer(ls, altitude, 1)

\* get_velocity_by_altitude taking the first layer from the top whose
\* closed interval holds the altitude
RECURSIVE FindLayerClosed(_, _, _)
FindLayerClosed(ls, altitude, i) ==
    IF i > Len(ls) THEN NoneResult
    ELSE IF ls[i].min_val <= altitude /\ altitude <= ls[i].max_val
         THEN Value(Rat(ls[i].vp, 1))
         ELSE FindLayerClosed(ls, altitude, i + 1)

get_velocity_by_altitude_closed(ls, altitude) ==
    IF altitude < min_altitude(ls) THEN Raise("ValueError")
    ELSE IF altitude = min_altitude(ls) THEN Value(Rat(ls[Len(ls)].vp, 1))
    ELSE IF altitude > max_altitude(ls) THEN Raise("ValueError")
    ELSE FindLayerClosed(ls, altitude, 1)

get_velocity_by_altitude(ls, altitude) ==
    IF altitude < min_altitude(ls) THEN Raise("ValueError")
    ELSE IF altitude = min_altitude(ls) THEN Value(Rat(ls[Len(ls)].vp, 1))
    ELSE IF altitude > max_altitude(ls) THEN Raise("ValueError")
    ELSE FindLayer(ls, altitude, 1)

\* LayerShare whose first case needs the query's top strictly above the
\* layer's bottom
LayerShareStrictTop(layer, iv) ==
    IF layer.min_val < iv.max_val /\ iv.max_val < layer.max_val
    THEN iv.max_val - layer.min_val
    ELSE IF layer.min_val < iv.min_val /\ iv.min_val <= layer.max_val
         THEN layer.max_val - iv.min_val
         ELSE thickness(layer)

\* LayerShare without the case of the query's bottom inside the layer
LayerShareNoBottom(layer, iv) ==
    IF layer.min_val <= iv.max_val /\ iv.max_val < layer.max_val
    THEN iv.max_val - layer.min_val
    ELSE thickness(layer)

\* thickness of one layer that get_interval_velocity adds for the query iv
LayerShare(layer, iv) ==
    IF layer.min_val <= iv.max_val /\ iv.max_val < layer.max_val
    THEN iv.max_val - layer.min_val
    ELSE IF layer.min_val < iv.min_val /\ iv.min_val <= layer.max_val
         THEN layer.max_val - iv.min_val
         ELSE thickness(layer)

\* Accumulate adding thickness * vp to the total time instead of
\* thickness / vp
RECURSIVE AccumulateTimesVp(_, _, _, _)
AccumulateTimesVp(ls, iv, i, acc) ==
    IF i > Len(ls) THEN acc
    ELSE IF ls[i].min_val > iv.max_val THEN AccumulateTimesVp(ls, iv, i + 1, acc)
    ELSE IF ls[i].max_val < iv.min_val THEN acc
    ELSE IF ls[i].vp = 0 THEN [acc EXCEPT !.failed = TRUE]
    ELSE AccumulateTimesVp(ls, iv, i + 1,
            [thickness |-> acc.thickness + LayerShare(ls[i], iv),
             time      |-> RatAdd(acc.time, Rat(LayerShare(ls[i], iv) * ls[i].vp, 1)),
             failed    |-> FALSE])

\* Accumulate adding the travel time of the whole layer (layer.travel_time)
\* instead of the time through the traversed part
RECURSIVE AccumulateFullTime(_, _, _, _)
AccumulateFullTime(ls, iv, i, acc) ==
    IF i > Len(ls) THEN acc
    ELSE IF ls[i].min_val > iv.max_val THEN AccumulateFullTime(ls, iv, i + 1, acc)
    ELSE IF ls[i].max_val < iv.min_val THEN acc
    ELSE IF ls[i].vp = 0 THEN [acc EXCEPT !.failed = TRUE]
    ELSE AccumulateFullTime(ls, iv, i + 1,
            [thickness |-> acc.thickness + LayerShare(ls[i], iv),
             time      |-> RatAdd(acc.time, Rat(thickness(ls[i]), ls[i].vp)),
             failed    |-> FALSE])

\* the for-loop of get_interval_velocity; acc = [thickness, time, failed]
RECURSIVE Accumulate(_, _, _, _)
Accumulate(ls, iv, i, acc) ==
    IF i > Len(ls) THEN acc
    ELSE IF ls[i].min_val > iv.max_val THEN Accumulate(ls, iv, i + 1, acc)
    ELSE IF ls[i].max_val < iv.min_val THEN acc
    ELSE IF ls[i].vp = 0 THEN [acc EXCEPT !.failed = TRUE]
    ELSE Accumulate(ls, iv, i + 1,
            [thickness |-> acc.thickness + LayerShare(ls[i], iv),
             time      |-> RatAdd(acc.time, Rat(LayerShare(ls[i], iv), ls[i].vp)),
             failed    |-> FALSE])

Totals(ls, iv) ==
    Accumulate(ls, iv, 1, [thickness |-> 0, time |-> Rat(0, 1), failed |-> FALSE])

\* get_interval_velocity without the zero-length case
get_interval_velocity_no_point_case(ls, iv) ==
    IF iv.min_val < min_altitude(ls) THEN Raise("ValueError")
    ELSE IF iv.max_val > max_altitude(ls) THEN Raise("ValueError")
    ELSE LET t == Totals(ls, iv)
         IN  IF t.failed \/ t.time.num = 0 THEN Raise("ZeroDivisionError")
             ELSE Value(Rat(t.thickness * t.time.den, t.time.num))

\* get_interval_velocity without the check of min_val against min_altitude
get_interval_velocity_no_min_check(ls, iv) ==
    IF iv.max_val > max_altitude(ls) THEN Raise("ValueError")
    ELSE IF length(iv) = 0 THEN get_velocity_by_altitude(ls, iv.max_val)
    ELSE LET t == Totals(ls, iv)
         IN  IF t.failed \/ t.time.num = 0 THEN Raise("ZeroDivisionError")
             ELSE Value(Rat(t.thickness * t.time.den, t.time.num))

get_interval_velocity(ls, iv) ==
    IF iv.min_val < min_altitude(ls) THEN Raise("ValueError")
    ELSE IF iv.max_val > max_altitude(ls) THEN Raise("ValueError")
    ELSE IF length(iv) = 0 THEN get_velocity_by_altitude(ls, iv.max_val)
    ELSE LET t == Totals(ls, iv)
         IN  IF t.failed \/ t.time.num = 0 THEN Raise("ZeroDivisionError")
             ELSE Value(Rat(t.thickness * t.time.den, t.time.num))

(***************************************************************************)
(* Well-formed stacks: contiguous, non-overlapping, positive thickness,    *)
(* vp > 0 (stated on the sorted list, shallowest layer first)              *)
(***************************************************************************)
WellFormed(ls) ==
    /\ Len(ls) >= 1
    /\ \A i \in 1..Len(ls) : thickness(ls[i]) > 0 /\ ls[i].vp > 0
    /\ \A i \in 1..(Len(ls) - 1) : ls[i].min_val = ls[i + 1].max_val

Injections(k) == { p \in [1..k -> 1..k] : \A i, j \in 1..k : p[i] = p[j] => i = j }

\* the well-formed stacks of k layers over the levels, bottom layer first
StacksOf(k) ==
    { [i \in 1..k |-> Layer(LevelAlt(b[i]), LevelAlt(b[i + 1]), v[i])] :
        <<b, v>> \in { t \in [1..(k + 1) -> 0..MaxLevel] \X [1..k -> 1..MaxVp] :
                        \A i \in 1..k : t[1][i] < t[1][i + 1] } }

\* every well-formed stack in every order a caller may list it
WellFormedLayerLists ==
    UNION { { [i \in 1..k |-> s[p[i]]] : <<s, p>> \in StacksOf(k) \X Injections(k) } :
            k \in 1..MaxLayers }

\* the layer list of the repository's tests, in every order
TestLayers == << Layer(-90, -80, 3), Layer(-80, -70, 2), Layer(-70, -60, 1) >>

TestLayerLists == { [i \in 1..3 |-> TestLayers[p[i]]] : p \in Injections(3) }

\* every non-empty selection of the test layers, bottom layer first: the
\* contiguous ones are well-formed stacks, the first with the third leaves a gap
TestSubLists ==
    { s \in SeqsUpTo({ TestLayers[i] : i \in 1..3 }, 3) :
        /\ Len(s) >= 1
        /\ \A i \in 1..(Len(s) - 1) : s[i].max_val < s[i + 1].max_val }

(***************************************************************************)
(* ObservationSystem                                                       *)
(***************************************************************************)
\* a station, reduced to the fields the core reads: number and
\* coordinate.altitude
Station(number, altitude) == [number |-> number, altitude |-> altitude]

\* station altitudes: the boundaries and mid-points of the test layers, and
\* one point below and one above them
StationAlts ==
    { a \in (TestLayers[1].min_val - Half)..(TestLayers[3].max_val + Half) :
        (a - Origin) % Half = 0 }

\* station numbers: two stations may carry the same number
StationNumbers == {1, 7}

StationLists ==
    SeqsUpTo({ Station(n, a) : <<n, a>> \in StationNumbers \X StationAlts }, MaxStations)

RECURSIVE MinAltitudeFrom(_, _, _)
MinAltitudeFrom(sts, i, m) ==
    IF i > Len(sts) THEN m
    ELSE MinAltitudeFrom(sts, i + 1, IF sts[i].altitude < m THEN sts[i].altitude ELSE m)

\* base_altitude reading the highest station instead of the lowest
RECURSIVE MaxAltitudeFrom(_, _, _)
MaxAltitudeFrom(sts, i, m) ==
    IF i > Len(sts) THEN m
    ELSE MaxAltitudeFrom(sts, i + 1, IF sts[i].altitude > m THEN sts[i].altitude ELSE m)

base_altitude_max(sts) ==
    IF Len(sts) = 0 THEN Raise("ValueError")
    ELSE [kind |-> "value", num |-> MaxAltitudeFrom(sts, 2, sts[1].altitude), den |-> 1]

\* base_altitude reading the first station
base_altitude_first(sts) ==
    IF Len(sts) = 0 THEN Raise("ValueError")
    ELSE [kind |-> "value", num |-> sts[1].altitude, den |-> 1]

\* ObservationSystem.base_altitude: min(...) over the stations; min() of an
\* empty sequence raises ValueError
base_altitude(sts) ==
    IF Len(sts) = 0 THEN Raise("ValueError")
    ELSE [kind |-> "value", num |-> MinAltitudeFrom(sts, 2, sts[1].altitude), den |-> 1]

(***************************************************************************)
(* StaticCorrection                                                        *)
(***************************************************************************)
\* StationTime measuring from the station up to the model's max_altitude
\* instead of from base_altitude up to the station
StationTimeFromTop(ls, sts, station) ==
    LET b == base_altitude(sts)
    IN  IF b.kind # "value" THEN [kind |-> b.kind, num |-> 0, den |-> 1, at |-> "base_altitude"]
        ELSE IF ~IntervalValid(station.altitude, max_altitude(ls))
        THEN [kind |-> "ValueError", num |-> 0, den |-> 1, at |-> "Interval"]
        ELSE LET iv == Interval(station.altitude, max_altitude(ls))
                 v  == get_interval_velocity(ls, iv)
             IN  IF v.kind \in {"ValueError", "ZeroDivisionError"}
                 THEN [kind |-> v.kind, num |-> 0, den |-> 1, at |-> "get_interval_velocity"]
                 ELSE IF v.kind = "None"
                 THEN [kind |-> "TypeError", num |-> 0, den |-> 1, at |-> "division"]
                 ELSE IF v.num = 0
                 THEN [kind |-> "ZeroDivisionError", num |-> 0, den |-> 1, at |-> "division"]
                 ELSE LET t == Rat(length(iv) * v.den, v.num)
                      IN  [kind |-> "value", num |-> t.num, den |-> t.den, at |-> "division"]

\* StationTime storing the interval velocity itself as the correction value
StationTimeVelocity(ls, sts, station) ==
    LET b == base_altitude(sts)
    IN  IF b.kind # "value" THEN [kind |-> b.kind, num |-> 0, den |-> 1, at |-> "base_altitude"]
        ELSE IF ~IntervalValid(b.num, station.altitude)
        THEN [kind |-> "ValueError", num |-> 0, den |-> 1, at |-> "Interval"]
        ELSE LET iv == Interval(b.num, station.altitude)
                 v  == get_interval_velocity(ls, iv)
             IN  IF v.kind \in {"ValueError", "ZeroDivisionError"}
                 THEN [kind |-> v.kind, num |-> 0, den |-> 1, at |-> "get_interval_velocity"]
                 ELSE IF v.kind = "None"
                 THEN [kind |-> "TypeError", num |-> 0, den |-> 1, at |-> "division"]
                 ELSE [kind |-> "value", num |-> v.num, den |-> v.den, at |-> "division"]

\* the outcome of one pass of the loop of __get_corrections for a station:
\* Interval(...), get_interval_velocity(...), length / interval_velocity
StationTime(ls, sts, station) ==
    LET b == base_altitude(sts)
    IN  IF b.kind # "value" THEN [kind |-> b.kind, num |-> 0, den |-> 1, at |-> "base_altitude"]
        ELSE IF ~IntervalValid(b.num, station.altitude)
        THEN [kind |-> "ValueError", num |-> 0, den |-> 1, at |-> "Interval"]
        ELSE LET iv == Interval(b.num, station.altitude)
                 v  == get_interval_velocity(ls, iv)
             IN  IF v.kind \in {"ValueError", "ZeroDivisionError"}
                 THEN [kind |-> v.kind, num |-> 0, den |-> 1, at |-> "get_interval_velocity"]
                 ELSE IF v.kind = "None"
                 THEN [kind |-> "TypeError", num |-> 0, den |-> 1, at |-> "division"]
                 ELSE IF v.num = 0
                 THEN [kind |-> "ZeroDivisionError", num |-> 0, den |-> 1, at |-> "division"]
                 ELSE LET t == Rat(length(iv) * v.den, v.num)
                      IN  [kind |-> "value", num |-> t.num, den |-> t.den, at |-> "division"]

NoCorrection ==
    [state |-> "none", exc |-> "none", at |-> "none", station |-> 0, values |-> <<>>]

\* __get_corrections reading base_altitude once, ahead of the loop over
\* the stations
RECURSIVE GetCorrectionsBaseFirst(_, _, _, _)
GetCorrectionsBaseFirst(ls, sts, i, values) ==
    IF i = 1 /\ base_altitude(sts).kind # "value"
    THEN [state |-> "raised", exc |-> base_altitude(sts).kind, at |-> "base_altitude",
          station |-> 0, values |-> <<>>]
    ELSE IF i > Len(sts)
    THEN [state |-> "built", exc |-> "none", at |-> "none", station |-> 0,
          values |-> values]
    ELSE LET t == StationTime(ls, sts, sts[i])
         IN  IF t.kind # "value"
             THEN [state |-> "raised", exc |-> t.kind, at |-> t.at, station |-> i,
                   values |-> <<>>]
             ELSE GetCorrectionsBaseFirst(ls, sts, i + 1,
                                          Append(values, [num |-> t.num, den |-> t.den]))

\* __get_corrections catching the exception of a station and going on to
\* the next one
RECURSIVE GetCorrectionsSkipping(_, _, _, _)
GetCorrectionsSkipping(ls, sts, i, values) ==
    IF i > Len(sts)
    THEN [state |-> "built", exc |-> "none", at |-> "none", station |-> 0,
          values |-> values]
    ELSE LET t == StationTime(ls, sts, sts[i])
         IN  IF t.kind # "value"
             THEN GetCorrectionsSkipping(ls, sts, i + 1, values)
             ELSE GetCorrectionsSkipping(ls, sts, i + 1,
                                         Append(values, [num |-> t.num, den |-> t.den]))

\* StaticCorrection.__get_corrections: the stations in order, the first
\* exception ends the loop and the construction
RECURSIVE GetCorrections(_, _, _, _)
GetCorrections(ls, sts, i, values) ==
    IF i > Len(sts)
    THEN [state |-> "built", exc |-> "none", at |-> "none", station |-> 0,
          values |-> values]
    ELSE LET t == StationTime(ls, sts, sts[i])
         IN  IF t.kind # "value"
             THEN [state |-> "raised", exc |-> t.kind, at |-> t.at, station |-> i,
                   values |-> <<>>]
             ELSE GetCorrections(ls, sts, i + 1,
                                 Append(values, [num |-> t.num, den |-> t.den]))

\* the positions of the stations whose number no earlier station carries
RECURSIVE FirstOccurrences(_, _)
FirstOccurrences(sts, i) ==
    IF i > Len(sts) THEN <<>>
    ELSE IF \E j \in 1..(i - 1) : sts[j].number = sts[i].number
         THEN FirstOccurrences(sts, i + 1)
         ELSE <<i>> \o FirstOccurrences(sts, i + 1)

\* corrections over a dict keyed by station number instead of station index
corrections_by_number(sts, values) ==
    LET keys == FirstOccurrences(sts, 1)
    IN  [k \in 1..Len(keys) |->
            [station_number |-> sts[keys[k]].number, value |-> values[keys[k]]]]

\* StaticCorrection.corrections: one Correction per entry of the dict, the
\* station looked up by the entry's key
corrections(sts, values) ==
    [i \in 1..Len(values) |-> [station_number |-> sts[i].number, value |-> values[i]]]

(***************************************************************************)
(* State                                                                   *)
(***************************************************************************)
VARIABLES
    input,      \* the list the caller passes to VelocityModel(layers=...)
    layers,     \* VelocityModel.__layers (<<>> until the constructor has run)
    phase,      \* "new", "built", or "failed" (the constructor raised)
    call,       \* the caller's last query on the model and what it returned
    stations,   \* ObservationSystem.stations
    base,       \* what the caller's last read of base_altitude gave
    sc,         \* the last StaticCorrection construction and its __corrections
    interval    \* the caller's last Interval(min_val, max_val) construction

vars == <<input, layers, phase, call, stations, base, sc, interval>>

NoCall == [op |-> "none", min_val |-> 0, max_val |-> 0, result |-> NoneResult]

NotRead == [kind |-> "unread", num |-> 0, den |-> 1]

NoInterval == [state |-> "none", min_val |-> 0, max_val |-> 0]

Init ==
    /\ input \in AnyLayerLists \cup WellFormedLayerLists \cup TestLayerLists
    /\ layers = <<>>
    /\ phase = "new"
    /\ call = NoCall
    /\ stations = <<>>
    /\ base = NotRead
    /\ sc = NoCorrection
    /\ interval = NoInterval

\* VelocityModel.__init__ refusing a list of one layer as well
ConstructRejectsSingle ==
    /\ phase = "new"
    /\ IF Len(input) <= 1
       THEN /\ phase' = "failed"
            /\ UNCHANGED <<input, layers>>
       ELSE /\ input' = SortLayers(input)
            /\ layers' = SortLayers(input)
            /\ phase' = "built"
    /\ UNCHANGED <<call, stations, base, sc, interval>>

\* VelocityModel.__init__ keeping a sorted copy (sorted(layers)) and leaving
\* the caller's list as it was
ConstructCopy ==
    /\ phase = "new"
    /\ IF input = <<>>
       THEN /\ phase' = "failed"
            /\ UNCHANGED <<input, layers>>
       ELSE /\ input' = input
            /\ layers' = SortLayers(input)
            /\ phase' = "built"
    /\ UNCHANGED <<call, stations, base, sc, interval>>

\* VelocityModel.__init__: raise on an empty list, else sort the caller's
\* list in place and keep it
Construct ==
    /\ phase = "new"
    /\ IF input = <<>>
       THEN /\ phase' = "failed"
            /\ UNCHANGED <<input, layers>>
       ELSE /\ input' = SortLayers(input)
            /\ layers' = SortLayers(input)
            /\ phase' = "built"
    /\ UNCHANGED <<call, stations, base, sc, interval>>

\* get_velocity_by_altitude reversing self.layers in place to scan and
\* leaving them reversed
GetVelocityByAltitudeReversing ==
    /\ phase = "built"
    /\ \E a \in QueryAlts :
         call' = [op |-> "get_velocity_by_altitude", min_val |-> a, max_val |-> a,
                  result |-> get_velocity_by_altitude(layers, a)]
    /\ layers' = [i \in 1..Len(layers) |-> layers[Len(layers) + 1 - i]]
    /\ UNCHANGED <<input, phase, stations, base, sc, interval>>

GetVelocityByAltitude ==
    /\ phase = "built"
    /\ \E a \in QueryAlts :
         call' = [op |-> "get_velocity_by_altitude", min_val |-> a, max_val |-> a,
                  result |-> get_velocity_by_altitude(layers, a)]
    /\ UNCHANGED <<input, layers, phase, stations, base, sc, interval>>

GetIntervalVelocity ==
    /\ phase = "built"
    /\ \E a, b \in QueryAlts :
         /\ IntervalValid(a, b)
         /\ call' = [op |-> "get_interval_velocity", min_val |-> a, max_val |-> b,
                     result |-> get_interval_velocity(layers, Interval(a, b))]
    /\ UNCHANGED <<input, layers, phase, stations, base, sc, interval>>

Next ==
    \/ Construct
    \/ GetVelocityByAltitude
    \/ GetIntervalVelocity

Spec == Init /\ [][Next]_vars

\* reading ObservationSystem.base_altitude
ReadBaseAltitude ==
    /\ base' = base_altitude(stations)
    /\ UNCHANGED <<input, layers, phase, call, stations, sc, interval>>

\* StaticCorrection(observation_system, model): __init__ stores both and
\* computes __corrections at once
NewStaticCorrection ==
    /\ phase = "built"
    /\ sc' = GetCorrections(layers, stations, 1, <<>>)
    /\ UNCHANGED <<input, layers, phase, call, stations, base, interval>>

\* Interval(min_val, max_val) with any two numbers
NewInterval ==
    /\ \E a, b \in 0..MaxIntervalVal :
         interval' = IF IntervalValid(a, b)
                     THEN [state |-> "built", min_val |-> a, max_val |-> b]
                     ELSE [state |-> "raised", min_val |-> a, max_val |-> b]
    /\ UNCHANGED <<input, layers, phase, call, stations, base, sc>>

\* a model and an observation system, and the corrections between them
InitCorr ==
    /\ input \in TestSubLists
    /\ stations \in StationLists
    /\ layers = <<>>
    /\ phase = "new"
    /\ call = NoCall
    /\ base = NotRead
    /\ sc = NoCorrection
    /\ interval = NoInterval

NextCorr ==
    \/ Construct
    \/ ReadBaseAltitude
    \/ NewStaticCorrection

SpecCorr == InitCorr /\ [][NextCorr]_vars

\* observation systems of up to MaxManyStations stations, the i-th station
\* numbered i, at any of the station altitudes
ManyStationLists ==
    UNION { { [i \in 1..k |-> Station(i, alts[i])] : alts \in [1..k -> StationAlts] } :
            k \in 0..MaxManyStations }

\* a model and an observation system of several stations, and the
\* corrections between them
InitMany ==
    /\ input \in TestSubLists
    /\ stations \in ManyStationLists
    /\ layers = <<>>
    /\ phase = "new"
    /\ call = NoCall
    /\ base = NotRead
    /\ sc = NoCorrection
    /\ interval = NoInterval

NextMany ==
    \/ Construct
    \/ NewStaticCorrection

SpecMany == InitMany /\ [][NextMany]_vars

\* the test model and an observation system of at most one station, with
\* queries and corrections in any order
InitFrame ==
    /\ input \in TestLayerLists
    /\ stations \in { sts \in StationLists : Len(sts) <= 1 }
    /\ layers = <<>>
    /\ phase = "new"
    /\ call = NoCall
    /\ base = NotRead
    /\ sc = NoCorrection
    /\ interval = NoInterval

NextFrame ==
    \/ Construct
    \/ GetVelocityByAltitude
    \/ GetIntervalVelocity
    \/ ReadBaseAltitude
    \/ NewStaticCorrection

SpecFrame == InitFrame /\ [][NextFrame]_vars

\* bare Interval constructions
InitInterval ==
    /\ input = <<>>
    /\ stations = <<>>
    /\ layers = <<>>
    /\ phase = "new"
    /\ call = NoCall
    /\ base = NotRead
    /\ sc = NoCorrection
    /\ interval = NoInterval

NextInterval == NewInterval

SpecInterval == InitInterval /\ [][NextInterval]_vars

TypeOK ==
    /\ phase \in {"new", "built", "failed"}
    /\ call.result.kind \in {"value", "None", "ValueError", "ZeroDivisionError"}
    /\ call.result.den > 0

(***************************************************************************)
(* Vocabulary of the properties                                            *)
(***************************************************************************)
\* the repository's test model, as the constructor leaves it
TestModel == << TestLayers[3], TestLayers[2], TestLayers[1] >>

Asked(op) == phase = "built" /\ call.op = op

\* the layers whose half-open span (bottom, top] holds the altitude
Holders(ls, a) == { i \in 1..Len(ls) : ls[i].min_val < a /\ a <= ls[i].max_val }

\* the layer with the lowest bottom has index Len(ls)
DeepestIsLast(ls) == \A i \in 1..Len(ls) : ls[Len(ls)].min_val <= ls[i].min_val

VpOf(layer) == Value(Rat(layer.vp, 1))

(***************************************************************************)
(* C1: in a well-formed model, get_velocity_by_altitude(a) for             *)
(* min_altitude < a <= max_altitude returns the vp of the one layer with   *)
(* bottom < a <= top (a shared boundary belongs to the deeper layer, whose *)
(* top it is), and get_velocity_by_altitude(min_altitude) returns the vp   *)
(* of the deepest layer.                                                   *)
(***************************************************************************)
C1_PointLookup ==
    (Asked("get_velocity_by_altitude") /\ WellFormed(layers)) =>
        LET a == call.max_val
        IN  /\ (min_altitude(layers) < a /\ a <= max_altitude(layers)) =>
                  /\ Cardinality(Holders(layers, a)) = 1
                  /\ \A i \in Holders(layers, a) : call.result = VpOf(layers[i])
            /\ a = min_altitude(layers) =>
                  /\ DeepestIsLast(layers)
                  /\ call.result = VpOf(layers[Len(layers)])

\* a lookup on the boundary shared by two layers of different velocity
\* returned the deeper layer's velocity
C1_Witness ==
    /\ Asked("get_velocity_by_altitude")
    /\ WellFormed(layers)
    /\ \E i \in 1..(Len(layers) - 1) :
         /\ call.max_val = layers[i].min_val
         /\ layers[i].vp # layers[i + 1].vp
         /\ call.result = VpOf(layers[i + 1])

(***************************************************************************)
(* C2: for the model built from [(-90,-80,vp=3), (-80,-70,vp=2),           *)
(* (-70,-60,vp=1)], get_velocity_by_altitude(-80) returns 1.               *)
(* The code returns 3, the velocity of the layer whose top is -80.         *)
(***************************************************************************)
AskedTestModelAtMinus80 ==
    /\ Asked("get_velocity_by_altitude")
    /\ layers = TestModel
    /\ call.max_val = -80

\* the claim as stated
C2_Original == AskedTestModelAtMinus80 => call.result = Value(Rat(1, 1))

\* C2 as amended: get_velocity_by_altitude(-80) on that model returns 3
C2_Amended == AskedTestModelAtMinus80 => call.result = Value(Rat(3, 1))

C2_Witness == AskedTestModelAtMinus80 /\ call.result.kind = "value"

(***************************************************************************)
(* Reference values, computed from the layers without the code's loop      *)
(***************************************************************************)
Min2(x, y) == IF x <= y THEN x ELSE y
Max2(x, y) == IF x >= y THEN x ELSE y

\* length of the intersection of a layer with [a, b]
Overlap(layer, a, b) ==
    Max2(0, Min2(layer.max_val, b) - Max2(layer.min_val, a))

\* sum over the layers i..j of overlap / vp
RECURSIVE OverlapTime(_, _, _, _, _)
OverlapTime(ls, i, j, a, b) ==
    IF i > j THEN Rat(0, 1)
    ELSE RatAdd(Rat(Overlap(ls[i], a, b), ls[i].vp), OverlapTime(ls, i + 1, j, a, b))

\* sum over the layers i..j of the thickness
RECURSIVE SumThickness(_, _, _)
SumThickness(ls, i, j) ==
    IF i > j THEN 0 ELSE thickness(ls[i]) + SumThickness(ls, i + 1, j)

\* sum over the layers i..j of thickness / vp
RECURSIVE SumTravelTime(_, _, _)
SumTravelTime(ls, i, j) ==
    IF i > j THEN Rat(0, 1)
    ELSE RatAdd(Rat(thickness(ls[i]), ls[i].vp), SumTravelTime(ls, i + 1, j))

\* distance / time as a returned value (time > 0)
Quotient(distance, time) == Value(Rat(distance * time.den, time.num))

InRange(ls, a) == min_altitude(ls) <= a /\ a <= max_altitude(ls)

\* a non-degenerate query inside the range of a well-formed model
AskedSpan ==
    /\ Asked("get_interval_velocity")
    /\ WellFormed(layers)
    /\ call.min_val < call.max_val
    /\ InRange(layers, call.min_val)
    /\ InRange(layers, call.max_val)

(***************************************************************************)
(* C3: a query whose bounds are layer boundaries of a well-formed model    *)
(* and that spans the layers i..j returns (sum of t_k) / (sum of t_k/v_k)  *)
(* over k in i..j, for two layers (t1+t2)/(t1/v1 + t2/v2); the layers      *)
(* that only touch the span at a boundary add nothing.                     *)
(***************************************************************************)
C3_FullSpan ==
    AskedSpan =>
        \A i, j \in 1..Len(layers) :
            (i <= j /\ call.max_val = layers[i].max_val
                    /\ call.min_val = layers[j].min_val) =>
                /\ call.result =
                     Quotient(SumThickness(layers, i, j), SumTravelTime(layers, i, j))
                /\ j = i + 1 =>
                     call.result =
                       Quotient(thickness(layers[i]) + thickness(layers[j]),
                                RatAdd(Rat(thickness(layers[i]), layers[i].vp),
                                       Rat(thickness(layers[j]), layers[j].vp)))

\* two layers of different velocity were spanned exactly, with a third layer
\* touching the span from above, and the result is neither layer's velocity
C3_Witness ==
    /\ AskedSpan
    /\ Len(layers) = 3
    /\ call.max_val = layers[2].max_val
    /\ call.min_val = layers[3].min_val
    /\ layers[2].vp # layers[3].vp
    /\ layers[1].vp # layers[2].vp
    /\ call.result.kind = "value"
    /\ call.result.den # 1

(***************************************************************************)
(* C4: in a well-formed model, an in-range query [a,b], a < b, whose top   *)
(* bound lies in one layer and whose bottom bound lies in a deeper layer   *)
(* returns (b - a) / (sum over layers of overlap_k / v_k).                 *)
(***************************************************************************)
C4_TwoLayers ==
    AskedSpan =>
        LET a == call.min_val
            b == call.max_val
        IN  \A t, d \in 1..Len(layers) :
              (/\ t < d
               /\ layers[t].min_val < b /\ b <= layers[t].max_val
               /\ layers[d].min_val <= a /\ a < layers[d].max_val) =>
                  call.result =
                    Quotient(b - a, OverlapTime(layers, 1, Len(layers), a, b))

\* both bounds strictly inside their layers, the layers of different velocity
C4_Witness ==
    /\ AskedSpan
    /\ \E t, d \in 1..Len(layers) :
         /\ t < d
         /\ layers[t].min_val < call.max_val /\ call.max_val < layers[t].max_val
         /\ layers[d].min_val < call.min_val /\ call.min_val < layers[d].max_val
         /\ layers[t].vp # layers[d].vp
    /\ call.result.kind = "value"

(***************************************************************************)
(* C5: for every altitude a in [min_altitude, max_altitude],               *)
(* get_interval_velocity on [a,a] returns exactly what                     *)
(* get_velocity_by_altitude(a) returns.                                    *)
(***************************************************************************)
AskedPoint ==
    /\ Asked("get_interval_velocity")
    /\ call.min_val = call.max_val
    /\ InRange(layers, call.max_val)

C5_ZeroLength ==
    AskedPoint => call.result = get_velocity_by_altitude(layers, call.max_val)

\* a zero-length query on the boundary between two layers
C5_Witness ==
    /\ AskedPoint
    /\ \E i \in 1..(Len(layers) - 1) :
         /\ call.max_val = layers[i].min_val
         /\ call.max_val = layers[i + 1].max_val
         /\ call.result = VpOf(layers[i + 1])

(***************************************************************************)
(* C6: in a well-formed model, an in-range query [a,b], a < b, inside one  *)
(* layer L (bottom_L <= a, b <= top_L) returns L.vp, the value             *)
(* get_velocity_by_altitude returns for every altitude strictly inside L.  *)
(***************************************************************************)
C6_SingleLayer ==
    AskedSpan =>
        \A i \in 1..Len(layers) :
            (layers[i].min_val <= call.min_val /\ call.max_val <= layers[i].max_val) =>
                /\ call.result = VpOf(layers[i])
                /\ \A x \in QueryAlts :
                     (layers[i].min_val < x /\ x < layers[i].max_val) =>
                        get_velocity_by_altitude(layers, x) = call.result

\* a query strictly inside a layer that has other layers around it
C6_Witness ==
    /\ AskedSpan
    /\ Len(layers) >= 2
    /\ \E i \in 1..Len(layers) :
         /\ layers[i].min_val < call.min_val
         /\ call.max_val < layers[i].max_val
         /\ call.result = VpOf(layers[i])

(***************************************************************************)
(* C7: get_velocity_by_altitude(a) raises ValueError exactly when          *)
(* a < min_altitude or a > max_altitude; for every a in                    *)
(* [min_altitude, max_altitude] of a contiguous model it returns a value.  *)
(***************************************************************************)
C7_PointRange ==
    Asked("get_velocity_by_altitude") =>
        LET a == call.max_val
        IN  /\ call.result.kind = "ValueError" <=> ~InRange(layers, a)
            /\ (WellFormed(layers) /\ InRange(layers, a)) => call.result.kind = "value"

\* a lookup above the top of the model raised
C7_Witness ==
    /\ Asked("get_velocity_by_altitude")
    /\ call.max_val > max_altitude(layers)
    /\ call.result.kind = "ValueError"

(***************************************************************************)
(* C8: get_interval_velocity(q) raises ValueError exactly when q.min_val   *)
(* or q.max_val lies outside [min_altitude, max_altitude], zero-length     *)
(* intervals included; an in-range query on a well-formed model returns a  *)
(* value.                                                                  *)
(***************************************************************************)
C8_IntervalRange ==
    Asked("get_interval_velocity") =>
        /\ call.result.kind = "ValueError" <=>
              (~InRange(layers, call.min_val) \/ ~InRange(layers, call.max_val))
        /\ (WellFormed(layers) /\ InRange(layers, call.min_val)
                               /\ InRange(layers, call.max_val)) =>
              call.result.kind = "value"

\* a query reaching below the model, its upper bound inside it, raised
C8_Witness ==
    /\ Asked("get_interval_velocity")
    /\ call.min_val < min_altitude(layers)
    /\ min_altitude(layers) < call.max_val
    /\ call.max_val < max_altitude(layers)
    /\ call.result.kind = "ValueError"

(***************************************************************************)
(* C9: for any non-empty input list, in any order, construction leaves     *)
(* model.layers a permutation of the input sorted by descending max_val:   *)
(* layers[i].max_val >= layers[j].max_val for i < j, no layer lost or      *)
(* duplicated.                                                             *)
(***************************************************************************)
Count(s, x) == Cardinality({ i \in 1..Len(s) : s[i] = x })

IsPermutation(s, t) ==
    /\ Len(s) = Len(t)
    /\ \A i \in 1..Len(s) : Count(s, s[i]) = Count(t, s[i])

SortedDesc(ls) ==
    \A i, j \in 1..Len(ls) : i < j => ls[i].max_val >= ls[j].max_val

C9_SortedPermutation ==
    [][(phase = "new" /\ input # <<>>) =>
          /\ phase' = "built"
          /\ SortedDesc(layers')
          /\ IsPermutation(layers', input)]_vars

\* a model of three layers with three different tops was built
C9_Witness ==
    /\ phase = "built"
    /\ Len(layers) = 3
    /\ layers[1].max_val > layers[2].max_val
    /\ layers[2].max_val > layers[3].max_val

(***************************************************************************)
(* C10: for any non-empty layer list, min_altitude is the minimum of       *)
(* min_val over all input layers and max_altitude is the maximum of        *)
(* max_val over all input layers.                                          *)
(* The code reads min_altitude from the layer with the smallest max_val;   *)
(* a layer that reaches below it (overlapping or nested layers) is missed. *)
(***************************************************************************)
LowestBottom(ls) ==
    CHOOSE m \in { ls[i].min_val : i \in 1..Len(ls) } :
        \A i \in 1..Len(ls) : m <= ls[i].min_val

HighestTop(ls) ==
    CHOOSE m \in { ls[i].max_val : i \in 1..Len(ls) } :
        \A i \in 1..Len(ls) : m >= ls[i].max_val

\* layers of positive thickness no two of which share more than a boundary
NonOverlapping(ls) ==
    /\ \A i \in 1..Len(ls) : thickness(ls[i]) > 0
    /\ \A i, j \in 1..Len(ls) :
         i # j => (ls[i].min_val >= ls[j].max_val \/ ls[j].min_val >= ls[i].max_val)

\* the claim as stated
C10_Original ==
    phase = "built" =>
        /\ min_altitude(layers) = LowestBottom(layers)
        /\ max_altitude(layers) = HighestTop(layers)

\* C10 as amended: max_altitude is the maximum of max_val over all input
\* layers for any non-empty list; min_altitude is the minimum of min_val
\* over all input layers when the layers have positive thickness and do not
\* overlap
C10_Amended ==
    phase = "built" =>
        /\ max_altitude(layers) = HighestTop(layers)
        /\ NonOverlapping(layers) => min_altitude(layers) = LowestBottom(layers)

\* a model of several non-overlapping layers was built
C10_Witness ==
    /\ phase = "built"
    /\ Len(layers) >= 2
    /\ NonOverlapping(layers)
    /\ min_altitude(layers) = LowestBottom(layers)
    /\ min_altitude(layers) < layers[1].min_val

(***************************************************************************)
(* C11: Interval(min_val, max_val) raises exactly when min_val > max_val:  *)
(* Interval(10, 0) fails, every zero-length interval is constructed, and   *)
(* every Interval that exists has min_val <= max_val.                      *)
(***************************************************************************)
C11_IntervalRange ==
    interval.state # "none" =>
        /\ interval.state = "raised" <=> interval.min_val > interval.max_val
        /\ interval.state = "built" <=> interval.min_val <= interval.max_val
        /\ interval.min_val = interval.max_val => interval.state = "built"

\* Interval(10, 0) was tried and raised
C11_Witness ==
    /\ interval.state = "raised"
    /\ interval.min_val = 10
    /\ interval.max_val = 0

(***************************************************************************)
(* C12: VelocityModel construction raises exactly when the layer list is   *)
(* empty; every non-empty list yields a model.                             *)
(***************************************************************************)
C12_EmptyModel ==
    [][(phase = "new" /\ phase' # "new") =>
          /\ phase' = "failed" <=> input = <<>>
          /\ phase' = "built" <=> input # <<>>
          /\ phase' = "built" => Len(layers') = Len(input)]_vars

\* the constructor raised on the empty list
C12_Witness == phase = "failed" /\ input = <<>> /\ layers = <<>>

(***************************************************************************)
(* C18: construction sorts the caller's list in place and keeps it: after  *)
(* a successful construction the caller's list holds the same layers in    *)
(* the same descending order as model.layers; a failed construction        *)
(* leaves the caller's list unchanged.                                     *)
(***************************************************************************)
C18_InPlace ==
    [][/\ (phase = "new" /\ phase' = "built") =>
             /\ input' = layers'
             /\ SortedDesc(input')
             /\ IsPermutation(input', input)
       /\ (phase = "new" /\ phase' = "failed") => input' = input
       /\ phase = "built" => (input' = input /\ input' = layers')]_vars

\* the caller's list and the model hold the same two or more layers of
\* different tops
C18_Witness ==
    /\ phase = "built"
    /\ input = layers
    /\ Len(input) >= 2
    /\ \A i \in 1..(Len(input) - 1) : input[i].max_val > input[i + 1].max_val

(***************************************************************************)
(* Vocabulary of the corrections                                           *)
(***************************************************************************)
\* the lowest station altitude, taken from the stations directly
LowestStation(sts) ==
    CHOOSE m \in { sts[i].altitude : i \in 1..Len(sts) } :
        \A i \in 1..Len(sts) : m <= sts[i].altitude

Corrected == phase = "built" /\ sc.state = "built"

CorrectionTried == phase = "built" /\ sc.state # "none"

Zero == [num |-> 0, den |-> 1]

(***************************************************************************)
(* C13: for any non-empty station list, one station included,              *)
(* base_altitude is the minimum of the stations' altitudes; reading it on  *)
(* an observation system without stations raises.                          *)
(***************************************************************************)
C13_BaseAltitude ==
    base.kind # "unread" =>
        /\ Len(stations) >= 1 =>
              base = [kind |-> "value", num |-> LowestStation(stations), den |-> 1]
        /\ Len(stations) = 0 => base.kind = "ValueError"

\* base_altitude was read where the lowest station is not the first one
C13_Witness ==
    /\ base.kind = "value"
    /\ Len(stations) = 2
    /\ stations[2].altitude < stations[1].altitude
    /\ base.num = stations[2].altitude

(***************************************************************************)
(* C14: when StaticCorrection construction succeeds, corrections has one   *)
(* entry per station, in station order, entry i carrying the number of     *)
(* stations[i], also when stations share a number.                         *)
(***************************************************************************)
C14_OnePerStation ==
    Corrected =>
        LET c == corrections(stations, sc.values)
        IN  /\ Len(c) = Len(stations)
            /\ \A i \in 1..Len(stations) :
                 /\ c[i].station_number = stations[i].number
                 /\ c[i].value = sc.values[i]

\* corrections for two stations of the same number at different altitudes
C14_Witness ==
    /\ Corrected
    /\ Len(stations) = 2
    /\ stations[1].number = stations[2].number
    /\ stations[1].altitude # stations[2].altitude
    /\ Len(corrections(stations, sc.values)) = 2

(***************************************************************************)
(* C15: each correction value is the one-way vertical travel time between  *)
(* base_altitude and the station: (altitude - base_altitude) divided by    *)
(* get_interval_velocity([base_altitude, altitude]); in a well-formed      *)
(* model that is the sum over the layers of overlap / vp.                  *)
(***************************************************************************)
C15_TravelTime ==
    Corrected =>
        \A i \in 1..Len(stations) :
            LET b == LowestStation(stations)
                a == stations[i].altitude
                v == get_interval_velocity(layers, Interval(b, a))
                t == sc.values[i]
            IN  /\ v.kind = "value"
                /\ t.num * v.num = (a - b) * v.den * t.den
                /\ WellFormed(layers) =>
                     t = OverlapTime(layers, 1, Len(layers), b, a)

\* a station above the base altitude, the span between them cutting two
\* layers of a well-formed model
C15_Witness ==
    /\ Corrected
    /\ WellFormed(layers)
    /\ \E i \in 1..Len(stations) :
         /\ stations[i].altitude > LowestStation(stations)
         /\ \E t, d \in 1..Len(layers) :
              /\ t < d
              /\ layers[t].min_val < stations[i].altitude
              /\ stations[i].altitude < layers[t].max_val
              /\ layers[d].min_val < LowestStation(stations)
              /\ LowestStation(stations) < layers[d].max_val
         /\ sc.values[i].num > 0

(***************************************************************************)
(* C16: every station at base_altitude gets the value 0 when that          *)
(* altitude lies in the model's range; station 7 at -60 alone over the     *)
(* test model gives the corrections [{station_number: 7, value: 0}].       *)
(***************************************************************************)
C16_ZeroAtBase ==
    /\ Corrected =>
         \A i \in 1..Len(stations) :
            stations[i].altitude = LowestStation(stations) => sc.values[i] = Zero
    /\ (CorrectionTried /\ WellFormed(layers)
          /\ \A i \in 1..Len(stations) : InRange(layers, stations[i].altitude)) =>
         sc.state = "built"
    /\ (CorrectionTried /\ layers = TestModel /\ stations = << Station(7, -60) >>) =>
         /\ sc.state = "built"
         /\ corrections(stations, sc.values) = << [station_number |-> 7, value |-> Zero] >>

\* the corrections of station 7 at -60 over the test model
C16_Witness ==
    /\ Corrected
    /\ layers = TestModel
    /\ stations = << Station(7, -60) >>
    /\ sc.values = << Zero >>

(***************************************************************************)
(* C17: if base_altitude is below min_altitude or a station is above       *)
(* max_altitude, construction fails with the query's error and produces    *)
(* no corrections: no station is skipped, no partial result is kept.       *)
(* On a list with a gap an earlier station can fail first, in the division *)
(* by the None the query returned.                                         *)
(***************************************************************************)
OutOfModel ==
    /\ CorrectionTried
    /\ Len(stations) >= 1
    /\ \/ LowestStation(stations) < min_altitude(layers)
       \/ \E i \in 1..Len(stations) : stations[i].altitude > max_altitude(layers)

\* the claim as stated
C17_Original ==
    OutOfModel =>
        /\ sc.state = "raised"
        /\ sc.exc = "ValueError"
        /\ sc.at = "get_interval_velocity"
        /\ sc.values = <<>>

\* C17 as amended: construction fails and produces no corrections; on a
\* well-formed model the error is the query's ValueError
C17_Amended ==
    OutOfModel =>
        /\ sc.state = "raised"
        /\ sc.values = <<>>
        /\ WellFormed(layers) =>
              (sc.exc = "ValueError" /\ sc.at = "get_interval_velocity")

\* the first station is fine, the second lies above the model, and the
\* construction raised at the second
C17_Witness ==
    /\ OutOfModel
    /\ WellFormed(layers)
    /\ Len(stations) = 2
    /\ InRange(layers, stations[1].altitude)
    /\ stations[2].altitude > max_altitude(layers)
    /\ sc.state = "raised"
    /\ sc.station = 2

(***************************************************************************)
(* C19: after construction, queries (succeeding or failing) and            *)
(* StaticCorrection constructions leave the model's layers, min_altitude,  *)
(* max_altitude and the stations unchanged; the layers stay sorted by      *)
(* descending max_val.                                                     *)
(***************************************************************************)
C19_ReadOnly ==
    [][phase = "built" =>
          /\ phase' = "built"
          /\ layers' = layers
          /\ min_altitude(layers') = min_altitude(layers)
          /\ max_altitude(layers') = max_altitude(layers)
          /\ stations' = stations
          /\ SortedDesc(layers')]_vars

\* a failed query and a correction have both been made on the model
C19_Witness ==
    /\ Corrected
    /\ call.op = "get_interval_velocity"
    /\ call.result.kind = "ValueError"
    /\ Len(stations) = 1
    /\ layers = TestModel

(***************************************************************************)
(* C20: building the interval [base_altitude, station altitude] never      *)
(* raises the Interval range error, for any station of any non-empty       *)
(* observation system: no station lies below the base altitude.            *)
(***************************************************************************)
C20_IntervalNeverFails ==
    CorrectionTried =>
        /\ sc.at # "Interval"
        /\ sc.at # "base_altitude"
        /\ sc.state = "raised" => sc.exc \in {"ValueError", "ZeroDivisionError", "TypeError"}

\* corrections were computed where the first station is the higher one
C20_Witness ==
    /\ Corrected
    /\ Len(stations) = 2
    /\ stations[1].altitude > stations[2].altitude

(***************************************************************************)
(* C21: a StaticCorrection over an observation system with zero stations   *)
(* is built without an error: the loop over the stations runs no pass, so  *)
(* base_altitude (which would raise) is not read and the model is not      *)
(* queried; corrections is the empty list.                                 *)
(***************************************************************************)
C21_NoStations ==
    (CorrectionTried /\ Len(stations) = 0) =>
        /\ base_altitude(stations).kind = "ValueError"
        /\ sc.state = "built"
        /\ sc.exc = "none"
        /\ sc.at = "none"
        /\ sc.values = <<>>
        /\ corrections(stations, sc.values) = <<>>

\* the caller's own read of base_altitude failed, the construction over the
\* same empty system did not; the model has a gap, so a query at a station
\* in it would have failed too
C21_Witness ==
    /\ CorrectionTried
    /\ stations = <<>>
    /\ base.kind = "ValueError"
    /\ sc.state = "built"
    /\ ~WellFormed(layers)

(***************************************************************************)
(* C22: for a well-formed model and an in-range non-degenerate query, the  *)
(* total thickness get_interval_velocity accumulates equals the length of  *)
(* the query, each layer adding the length of its intersection with it.    *)
(* The code adds query.max_val - bottom for the layer holding the query's  *)
(* top, also when the query's bottom lies above that layer's bottom.       *)
(***************************************************************************)
AskedInterval == Interval(call.min_val, call.max_val)

\* the layers the loop of get_interval_velocity accumulates for the query
Accumulated(ls, iv) ==
    { i \in 1..Len(ls) : ~(ls[i].min_val > iv.max_val) /\ ~(ls[i].max_val < iv.min_val) }

C22_TotalThickness ==
    AskedSpan =>
        /\ Totals(layers, AskedInterval).thickness = length(AskedInterval)
        /\ \A i \in Accumulated(layers, AskedInterval) :
              LayerShare(layers[i], AskedInterval)
                  = Overlap(layers[i], call.min_val, call.max_val)

(***************************************************************************)
(* C23: for a well-formed model and an in-range query, the value           *)
(* get_interval_velocity returns lies between the smallest and the largest *)
(* vp of the layers whose intersection with the query has positive length; *)
(* for a zero-length query it is the vp of one layer.                      *)
(***************************************************************************)
\* a query, degenerate or not, inside the range of a well-formed model
AskedInRange ==
    /\ Asked("get_interval_velocity")
    /\ WellFormed(layers)
    /\ call.min_val <= call.max_val
    /\ InRange(layers, call.min_val)
    /\ InRange(layers, call.max_val)

\* the layers that share more than a point with the query
Crossed == { i \in 1..Len(layers) : Overlap(layers[i], call.min_val, call.max_val) > 0 }

C23_BetweenVps ==
    AskedInRange =>
        /\ call.result.kind = "value"
        /\ call.min_val = call.max_val =>
              \E i \in 1..Len(layers) : call.result = VpOf(layers[i])
        /\ call.min_val < call.max_val =>
              /\ \E i \in Crossed : layers[i].vp * call.result.den <= call.result.num
              /\ \E i \in Crossed : call.result.num <= layers[i].vp * call.result.den

\* the query crosses layers of different vp, partly, and the value returned
\* is strictly between the smallest and the largest of them
C23_Witness ==
    /\ AskedInRange
    /\ call.min_val < call.max_val
    /\ Cardinality(Crossed) >= 2
    /\ \E i \in Crossed : layers[i].min_val < call.min_val
    /\ \E i \in Crossed : layers[i].vp * call.result.den < call.result.num
    /\ \E i \in Crossed : call.result.num < layers[i].vp * call.result.den

(***************************************************************************)
(* C24: for a well-formed model and stations that all lie within the       *)
(* model's range, every correction value is >= 0 and the values are        *)
(* monotone in altitude: a station at least as high as another has a value *)
(* at least as large (exact arithmetic).                                   *)
(***************************************************************************)
\* p <= q for fractions with positive denominators
RatLeq(p, q) == p.num * q.den <= q.num * p.den

AllStationsInRange ==
    /\ CorrectionTried
    /\ WellFormed(layers)
    /\ Len(stations) >= 1
    /\ \A i \in 1..Len(stations) : InRange(layers, stations[i].altitude)

C24_Monotone ==
    AllStationsInRange =>
        /\ sc.state = "built"
        /\ Len(sc.values) = Len(stations)
        /\ \A i \in 1..Len(stations) : RatLeq(Zero, sc.values[i])
        /\ \A i, j \in 1..Len(stations) :
              stations[i].altitude <= stations[j].altitude =>
                  RatLeq(sc.values[i], sc.values[j])

\* three stations in three layers, listed neither in ascending nor in
\* descending order of altitude; the two above the base have different,
\* positive values
C24_Witness ==
    /\ AllStationsInRange
    /\ layers = TestModel
    /\ Len(stations) = 3
    /\ stations[2].altitude < stations[1].altitude
    /\ stations[1].altitude < stations[3].altitude
    /\ stations[2].altitude < TestLayers[1].max_val
    /\ stations[3].altitude > TestLayers[3].min_val
    /\ sc.state = "built"
    /\ ~RatLeq(sc.values[1], Zero)
    /\ ~RatLeq(sc.values[3], sc.values[1])

====
